---- MODULE Spec2Model ----
(***************************************************************************)
(* Model of the persistence detector of src/backend/persistence_detector.py *)
(* (class PersistenceDetector): the pattern store, the sliding-window       *)
(* sequence matcher, the correlation check, the confidence score, the       *)
(* detection history and the pattern learner.                               *)
(*                                                                          *)
(* Representation.  A Python string is a sequence of atoms (an atom stands  *)
(* for a run of characters that no keyword of the program splits), so that  *)
(* `in`, split, endswith, startswith and lower are computed, not assumed.   *)
(* A missing CSV cell is pandas' NaN (NA below).  A float is an exact        *)
(* rational <<n, d>> in lowest terms with d > 0.  A timestamp is a number   *)
(* of seconds.                                                              *)
(***************************************************************************)
EXTENDS Integers, Sequences, FiniteSets, TLC

\* ------------------------------------------------------------------ strings
BS == "\\"
NA == <<"<NaN>">>
NONE == <<"<None>">>

IsNa(v) == v = NA \/ v = NONE
IsStr(v) == ~IsNa(v)
Truthy(v) == v # <<>> /\ v # NONE
Str(v) == IF v = NA THEN <<"nan">> ELSE IF v = NONE THEN <<"None">> ELSE v

Contains(s, k) ==
    \E i \in 0..(Len(s) - Len(k)) : SubSeq(s, i + 1, i + Len(k)) = k

EndsWith(s, k) == Len(k) <= Len(s) /\ SubSeq(s, Len(s) - Len(k) + 1, Len(s)) = k

StartsWith(s, k) == Len(k) <= Len(s) /\ SubSeq(s, 1, Len(k)) = k

LowerAtom(a) ==
    CASE a = "WINWORD.EXE" -> "winword.exe"
      [] a = "SchTasks.exe" -> "schtasks.exe"
      [] OTHER -> a

Lower(s) == [i \in DOMAIN s |-> LowerAtom(s[i])]

RECURSIVE Split(_)
Split(s) ==
    IF \A i \in DOMAIN s : s[i] # BS THEN <<s>>
    ELSE LET i == CHOOSE j \in DOMAIN s :
                      s[j] = BS /\ \A k \in 1..(j - 1) : s[k] # BS
         IN <<SubSeq(s, 1, i - 1)>> \o Split(SubSeq(s, i + 1, Len(s)))

Last(q) == q[Len(q)]

\* ---------------------------------------------------------------- rationals
Abs(x) == IF x < 0 THEN -x ELSE x

RECURSIVE Gcd(_, _)
Gcd(a, b) == IF b = 0 THEN a ELSE Gcd(b, a % b)

Rat(n, d) ==
    LET g == Gcd(Abs(n), Abs(d))
        s == IF d < 0 THEN -1 ELSE 1
    IN <<(s * n) \div g, (s * d) \div g>>

RatAdd(x, y) == Rat(x[1] * y[2] + y[1] * x[2], x[2] * y[2])
RatMul(x, y) == Rat(x[1] * y[1], x[2] * y[2])
RatSub(x, y) == Rat(x[1] * y[2] - y[1] * x[2], x[2] * y[2])
RatLt(x, y) == x[1] * y[2] < y[1] * x[2]
RatLe(x, y) == x[1] * y[2] <= y[1] * x[2]
RatMin(x, y) == IF RatLe(x, y) THEN x ELSE y
RatInt(n) == <<n, 1>>

\* ----------------------------------------------------------------- patterns
Has(r, f) == f \in DOMAIN r

\* Python's None for last_seen is <<>>; a time t is <<t>>.
NoTime == <<>>

base_pattern_ids ==
    << <<"T1547.001_registry_run">>, <<"T1053.005_scheduled_task">>,
       <<"T1546.003_wmi_event">>, <<"T1547.001_startup_folder">>,
       <<"T1547.009_shortcut_modification">>, <<"T1543.003_windows_service">> >>

base_patterns(id) ==
    CASE id = <<"T1547.001_registry_run">> ->
           [name |-> <<"Registry Run Keys Persistence">>, mitre_id |-> "T1547.001",
            severity |-> "CRITICAL",
            sequence |-> << [rule_id |-> "553", event_type |-> "file_create"],
                            [rule_id |-> "18101", event_type |-> "registry_modify",
                             registry_contains |->
                                << <<"Run">>, <<"Run", "Once">>,
                                   <<"CurrentVersion", BS, "Run">> >>] >>,
            correlation |-> "file_path_in_registry_value",
            time_window_minutes |-> 30, confidence_base |-> Rat(80, 100),
            detection_count |-> 0, false_positive_count |-> 0, last_seen |-> NoTime]
      [] id = <<"T1053.005_scheduled_task">> ->
           [name |-> <<"Scheduled Task/Job - Scheduled Task">>, mitre_id |-> "T1053.005",
            severity |-> "CRITICAL",
            sequence |-> << [rule_id |-> "553", event_type |-> "file_create"],
                            [process_name |-> <<"schtasks.exe">>],
                            [rule_id |-> "60120", event_type |-> "task_created"] >>,
            correlation |-> "file_path_in_command_line",
            time_window_minutes |-> 15, confidence_base |-> Rat(85, 100),
            detection_count |-> 0, false_positive_count |-> 0, last_seen |-> NoTime]
      [] id = <<"T1546.003_wmi_event">> ->
           [name |-> <<"Event Triggered Execution - WMI Event Subscription">>,
            mitre_id |-> "T1546.003", severity |-> "CRITICAL",
            sequence |-> << [process_name |-> <<"wmic.exe">>],
                            [rule_id |-> "61600", event_type |-> "wmi_filter"],
                            [rule_id |-> "61601", event_type |-> "wmi_consumer"] >>,
            time_window_minutes |-> 20, confidence_base |-> Rat(90, 100),
            detection_count |-> 0, false_positive_count |-> 0, last_seen |-> NoTime]
      [] id = <<"T1547.001_startup_folder">> ->
           [name |-> <<"Boot or Logon Autostart - Startup Folder">>,
            mitre_id |-> "T1547.001", severity |-> "HIGH",
            sequence |-> << [rule_id |-> "553", event_type |-> "file_create",
                             path_contains |->
                                << <<"Start", "up">>,
                                   <<"Start", " Menu", BS, "Programs", BS, "Start", "up">> >>] >>,
            time_window_minutes |-> 10, confidence_base |-> Rat(70, 100),
            detection_count |-> 0, false_positive_count |-> 0, last_seen |-> NoTime]
      [] id = <<"T1547.009_shortcut_modification">> ->
           [name |-> <<"Boot or Logon Autostart - Shortcut Modification">>,
            mitre_id |-> "T1547.009", severity |-> "HIGH",
            sequence |-> << [rule_id |-> "550", event_type |-> "file_modify",
                             file_extension |-> << <<".lnk">> >>],
                            [path_contains |->
                                << <<"Desktop">>, <<"Start", " Menu">>,
                                   <<"Quick Launch">> >>] >>,
            time_window_minutes |-> 15, confidence_base |-> Rat(65, 100),
            detection_count |-> 0, false_positive_count |-> 0, last_seen |-> NoTime]
      [] id = <<"T1543.003_windows_service">> ->
           [name |-> <<"Create or Modify System Process - Windows Service">>,
            mitre_id |-> "T1543.003", severity |-> "CRITICAL",
            sequence |-> << [rule_id |-> "553", event_type |-> "file_create"],
                            [rule_id |-> "60200", event_type |-> "service_installed"],
                            [rule_id |-> "60204", event_type |-> "service_started"] >>,
            correlation |-> "file_path_in_service_path",
            time_window_minutes |-> 20, confidence_base |-> Rat(85, 100),
            detection_count |-> 0, false_positive_count |-> 0, last_seen |-> NoTime]

\* A pattern store (a Python dict, which keeps insertion order): the ids in
\* order and the definition of each.
EmptyStore == [ids |-> <<>>, defs |-> <<>>]

InStore(store, id) == \E i \in DOMAIN store.ids : store.ids[i] = id

StorePut(store, id, def) ==
    IF InStore(store, id)
    THEN [store EXCEPT !.defs = [i \in DOMAIN store.ids |->
                                   IF store.ids[i] = id THEN def ELSE store.defs[i]]]
    ELSE [ids |-> Append(store.ids, id), defs |-> Append(store.defs, def)]

StoreGet(store, id) ==
    store.defs[CHOOSE i \in DOMAIN store.ids : store.ids[i] = id]


\* ----------------------------------------------------------------- matching
\* group.sort_values('timestamp'): for the at most 16 rows of a bounded
\* group numpy's quicksort is an insertion sort, which is stable.
RECURSIVE SortByTime(_)
SortByTime(rows) ==
    IF rows = <<>> THEN <<>>
    ELSE LET rest == SortByTime(SubSeq(rows, 1, Len(rows) - 1))
             x == rows[Len(rows)]
             n == Cardinality({j \in DOMAIN rest : rest[j].timestamp <= x.timestamp})
         IN SubSeq(rest, 1, n) \o <<x>> \o SubSeq(rest, n + 1, Len(rest))

Indices(n) == [j \in 1..n |-> j]

\* Variant of WindowIdx: the upper end of the window is left out.
WindowIdxOpenEnd(group, i, minutes) ==
    SelectSeq(Indices(Len(group)),
              LAMBDA j : /\ group[j].timestamp >= group[i].timestamp
                         /\ group[j].timestamp < group[i].timestamp + 60 * minutes)

\* The rows of the group inside [group[i].timestamp, that + minutes], as
\* positions of the (re-indexed) group.
WindowIdx(group, i, minutes) ==
    SelectSeq(Indices(Len(group)),
              LAMBDA j : /\ group[j].timestamp >= group[i].timestamp
                         /\ group[j].timestamp <= group[i].timestamp + 60 * minutes)

Rows(group, widx) == [k \in DOMAIN widx |-> group[widx[k]]]

\* One event against one seq_item: the chain of `continue`s.
CriterionOK(event, seq_item) ==
    /\ Has(seq_item, "rule_id") => ToString(event.rule_id) = seq_item.rule_id
    /\ Has(seq_item, "process_name") =>
          /\ Truthy(event.process_name)
          /\ IsStr(event.process_name)
          /\ IsStr(seq_item.process_name)
          /\ Contains(Lower(event.process_name), Lower(seq_item.process_name))
    /\ Has(seq_item, "registry_contains") =>
          /\ Truthy(event.registry_key)
          /\ IsStr(event.registry_key)
          /\ \E k \in DOMAIN seq_item.registry_contains :
                 Contains(event.registry_key, seq_item.registry_contains[k])
    /\ Has(seq_item, "path_contains") =>
          /\ Truthy(event.file_path)
          /\ IsStr(event.file_path)
          /\ \E k \in DOMAIN seq_item.path_contains :
                 Contains(event.file_path, seq_item.path_contains[k])
    /\ Has(seq_item, "file_extension") =>
          /\ Truthy(event.file_path)
          /\ \E k \in DOMAIN seq_item.file_extension :
                 EndsWith(Str(event.file_path), seq_item.file_extension[k])

\* Variant of FirstSatisfying: the position inside the window is returned
\* in place of the row's index label.
FirstSatisfyingPosition(group, widx, seq_item) ==
    LET ok == {k \in DOMAIN widx : CriterionOK(group[widx[k]], seq_item)}
    IN IF ok = {} THEN 0
       ELSE CHOOSE k \in ok : \A m \in ok : k <= m

\* The position in the group of the first window row that satisfies the
\* seq_item, 0 when there is none.
FirstSatisfying(group, widx, seq_item) ==
    LET ok == {k \in DOMAIN widx : CriterionOK(group[widx[k]], seq_item)}
    IN IF ok = {} THEN 0
       ELSE widx[CHOOSE k \in ok : \A m \in ok : k <= m]

FirstWith(events, field) ==
    LET ok == {k \in DOMAIN events : ~IsNa(events[k][field])}
    IN IF ok = {} THEN 0 ELSE CHOOSE k \in ok : \A m \in ok : k <= m

check_correlation(events, correlation_type, matched_indices) ==
    LET f == FirstWith(events, "file_path") IN
    CASE correlation_type = "file_path_in_registry_value" ->
           LET r == FirstWith(events, "registry_value") IN
           IF f = 0 \/ r = 0 THEN FALSE
           ELSE IF Truthy(events[f].file_path) /\ Truthy(events[r].registry_value)
                THEN Contains(Str(events[r].registry_value),
                              Last(Split(Str(events[f].file_path))))
                ELSE TRUE
      [] correlation_type = "file_path_in_command_line" ->
           LET c == FirstWith(events, "process_cmdline") IN
           IF f = 0 \/ c = 0 THEN FALSE
           ELSE IF Truthy(events[f].file_path) /\ Truthy(events[c].process_cmdline)
                THEN Contains(Str(events[c].process_cmdline), Str(events[f].file_path))
                ELSE TRUE
      [] correlation_type = "file_path_in_service_path" -> f # 0
      [] OTHER -> TRUE

\* Variant of Bindings: the scan for a criterion resumes at the row bound to
\* the criterion before it.
FirstSatisfyingFrom(group, widx, seq_item, from) ==
    LET ok == {k \in DOMAIN widx : /\ widx[k] >= from
                                   /\ CriterionOK(group[widx[k]], seq_item)}
    IN IF ok = {} \/ from = 0 THEN 0
       ELSE widx[CHOOSE k \in ok : \A m \in ok : k <= m]

RECURSIVE BindingsFrom(_, _, _, _, _)
BindingsFrom(group, widx, sequence, j, bound) ==
    IF j > Len(sequence) THEN bound
    ELSE BindingsFrom(group, widx, sequence, j + 1,
                      Append(bound,
                             FirstSatisfyingFrom(group, widx, sequence[j],
                                                 IF j = 1 THEN 1 ELSE bound[j - 1])))

BindingsInOrder(group, widx, sequence) == BindingsFrom(group, widx, sequence, 1, <<>>)

\* The first satisfying event of every seq_item of the pattern (0: none).
Bindings(group, widx, sequence) ==
    [j \in DOMAIN sequence |-> FirstSatisfying(group, widx, sequence[j])]

\* Variant of MatchResult: the declared correlation is never checked.
MatchResultUncorrelated(events, pattern_def, bind) ==
    IF \E j \in DOMAIN bind : bind[j] = 0
    THEN [matched |-> FALSE, matched_indices |-> <<>>]
    ELSE [matched |-> TRUE, matched_indices |-> bind]

\* Variant of MatchResult: `found` is tested once, after the loop over the
\* sequence, so only the last seq_item decides.
MatchResultLastFound(events, pattern_def, bind) ==
    IF bind[Len(bind)] = 0
    THEN [matched |-> FALSE, matched_indices |-> <<>>]
    ELSE IF /\ Has(pattern_def, "correlation")
            /\ ~check_correlation(events, pattern_def.correlation, bind)
         THEN [matched |-> FALSE, matched_indices |-> bind]
         ELSE [matched |-> TRUE, matched_indices |-> bind]

\* What _match_sequence returns once every seq_item has been searched.
MatchResult(events, pattern_def, bind) ==
    IF \E j \in DOMAIN bind : bind[j] = 0
    THEN [matched |-> FALSE, matched_indices |-> <<>>]
    ELSE IF /\ Has(pattern_def, "correlation")
            /\ ~check_correlation(events, pattern_def.correlation, bind)
         THEN [matched |-> FALSE, matched_indices |-> bind]
         ELSE [matched |-> TRUE, matched_indices |-> bind]

match_sequence(group, widx, pattern_def) ==
    MatchResult(Rows(group, widx), pattern_def,
                Bindings(group, widx, pattern_def.sequence))

\* ------------------------------------------------------------------ scoring
suspicious_paths ==
    { <<"Temp">>, <<"Public">>, <<"AppData", BS, "Roaming">>, <<"Downloads">>,
      <<"ProgramData">> }

suspicious_parents ==
    { <<"winword.exe">>, <<"excel.exe">>, <<"powerpnt.exe">>, <<"outlook.exe">>,
      <<"acrobat.exe">>, <<"chrome.exe">>, <<"firefox.exe">> }

Duration(events) == events[Len(events)].timestamp - events[1].timestamp

DurationBoost(events) ==
    IF Duration(events) < 60 THEN Rat(15, 100)
    ELSE IF Duration(events) < 300 THEN Rat(10, 100)
    ELSE RatInt(0)

PathBoost(events) ==
    IF \E k \in DOMAIN events :
          /\ Truthy(events[k].file_path)
          /\ \E susp \in suspicious_paths : Contains(Str(events[k].file_path), susp)
    THEN Rat(5, 100) ELSE RatInt(0)

ParentBoost(events) ==
    IF \E k \in DOMAIN events :
          /\ Truthy(events[k].parent_process)
          /\ \E parent \in suspicious_parents :
                 Contains(Lower(Str(events[k].parent_process)), parent)
    THEN Rat(10, 100) ELSE RatInt(0)

\* Variant of Damping: the false positive rate is not halved.
DampingFullRate(pattern_def) ==
    IF pattern_def.detection_count > 0
    THEN RatSub(RatInt(1),
                Rat(pattern_def.false_positive_count, pattern_def.detection_count))
    ELSE RatInt(1)

Damping(pattern_def) ==
    IF pattern_def.detection_count > 0
    THEN RatSub(RatInt(1),
                RatMul(Rat(pattern_def.false_positive_count, pattern_def.detection_count),
                       Rat(1, 2)))
    ELSE RatInt(1)

calculate_confidence(events, pattern_def, match_result) ==
    RatMin(RatMul(RatAdd(RatAdd(RatAdd(pattern_def.confidence_base,
                                       DurationBoost(events)),
                                PathBoost(events)),
                         ParentBoost(events)),
                  Damping(pattern_def)),
           RatInt(1))

generate_detection_id(events) ==
    <<ToString(events[1].timestamp)>> \o Str(events[1].agent_name)
        \o <<ToString(events[1].rule_id)>>

\* ---------------------------------------------------------------- detection
\* The keys of df.groupby(['agent_name', 'user']) in sorted order; groupby
\* drops the rows whose agent_name or user is missing.
AgentNames == << <<"h1">>, <<"h2">> >>
UserNames == << <<"u1">>, <<"u2">> >>

GroupKeys(df) ==
    LET all == [n \in 1..(Len(AgentNames) * Len(UserNames)) |->
                  << AgentNames[((n - 1) \div Len(UserNames)) + 1],
                     UserNames[((n - 1) % Len(UserNames)) + 1] >>]
    IN SelectSeq(all, LAMBDA key :
                    \E r \in DOMAIN df : df[r].agent_name = key[1] /\ df[r].user = key[2])

GroupOf(df, key) ==
    SortByTime(SelectSeq(df, LAMBDA row : row.agent_name = key[1] /\ row.user = key[2]))

MakeDetection(window_events, pattern_id, pattern_def, match_result, agent, user, now) ==
    [detection_id |-> generate_detection_id(window_events),
     pattern_id |-> pattern_id,
     pattern_name |-> pattern_def.name,
     mitre_id |-> pattern_def.mitre_id,
     original_severity |-> "LOW",
     reclassified_severity |-> pattern_def.severity,
     confidence |-> calculate_confidence(window_events, pattern_def, match_result),
     agent |-> agent,
     user |-> IF ~IsNa(user) THEN user ELSE <<"UNKNOWN">>,
     start_time |-> <<ToString(window_events[1].timestamp)>>,
     end_time |-> <<ToString(window_events[Len(window_events)].timestamp)>>,
     duration_seconds |-> Duration(window_events),
     event_count |-> Len(window_events),
     events |-> window_events,
     detection_time |-> now]

\* The least window start of a set of starts, as a sequence of at most one.
FirstOf(hit) == IF hit = {} THEN <<>> ELSE << CHOOSE i \in hit : \A j \in hit : i <= j >>

\* Variant of ReportedStarts: the search does not break at the first match.
ReportedStartsNoBreak(group, pattern_def) ==
    SelectSeq(Indices(Len(group)),
              LAMBDA i : match_sequence(group,
                                       WindowIdx(group, i, pattern_def.time_window_minutes),
                                       pattern_def).matched)

\* Variant of ReportedStarts: only the first window start is tried.
ReportedStartsFirstOnly(group, pattern_def) ==
    IF group # <<>> /\ match_sequence(group,
                                     WindowIdx(group, 1, pattern_def.time_window_minutes),
                                     pattern_def).matched
    THEN <<1>> ELSE <<>>

\* Variant of ReportedStarts: the latest start whose window matches.
LatestOf(found) ==
    IF found = {} THEN <<>> ELSE << CHOOSE i \in found : \A m \in found : m <= i >>

ReportedStartsLatest(group, pattern_def) ==
    LatestOf({i \in DOMAIN group :
                 match_sequence(group,
                                WindowIdx(group, i, pattern_def.time_window_minutes),
                                pattern_def).matched})

\* The window starts of one group that the sliding search reports: it
\* breaks at the first start whose window matches.
ReportedStarts(group, pattern_def) ==
    FirstOf({i \in DOMAIN group :
                match_sequence(group,
                               WindowIdx(group, i, pattern_def.time_window_minutes),
                               pattern_def).matched})

\* The statistics update of one detection.
UpdateStatistics(pattern_def, now) ==
    [pattern_def EXCEPT !.detection_count = @ + 1, !.last_seen = <<now>>]

\* One entry of the detections list, kept with its match_result.
Hit(window_events, pattern_id, pattern_def, match_result, key, now) ==
    [detection |-> MakeDetection(window_events, pattern_id, pattern_def, match_result,
                                 key[1], key[2], now),
     match_result |-> match_result]

\* Variant of Report: the detection records only the rows bound to the
\* criteria, in the order of the group.
BoundHit(group, pattern_id, pattern_def, match_result, key, now) ==
    Hit(SelectSeq(group, LAMBDA row :
                    \E j \in DOMAIN match_result.matched_indices :
                        group[match_result.matched_indices[j]] = row),
        pattern_id, pattern_def, match_result, key, now)

ReportBoundOnly(acc, group, start, key, pattern_id, pattern_def, now) ==
    [hits |-> Append(acc.hits,
                     BoundHit(group, pattern_id, pattern_def,
                              match_sequence(group,
                                             WindowIdx(group, start,
                                                       pattern_def.time_window_minutes),
                                             pattern_def),
                              key, now)),
     store |-> StorePut(acc.store, pattern_id, UpdateStatistics(pattern_def, now))]

\* The body of the window loop at a reported start: the detection is
\* appended and the pattern's statistics are updated.
Report(acc, group, start, key, pattern_id, pattern_def, now) ==
    LET widx == WindowIdx(group, start, pattern_def.time_window_minutes)
    IN [hits |-> Append(acc.hits,
                        Hit(Rows(group, widx), pattern_id, pattern_def,
                            match_sequence(group, widx, pattern_def), key, now)),
        store |-> StorePut(acc.store, pattern_id, UpdateStatistics(pattern_def, now))]

\* The inner loop of _detect_pattern over the reported starts of one group;
\* acc is [hits, store], a hit being the detection with its match_result.
RECURSIVE DetectStarts(_, _, _, _, _, _, _)
DetectStarts(starts, group, key, pattern_id, now, k, acc) ==
    IF k > Len(starts) THEN acc
    ELSE DetectStarts(starts, group, key, pattern_id, now, k + 1,
                      Report(acc, group, starts[k], key, pattern_id,
                             StoreGet(acc.store, pattern_id), now))

RECURSIVE DetectGroups(_, _, _, _, _)
DetectGroups(groups, pattern_id, now, g, acc) ==
    IF g > Len(groups) THEN acc
    ELSE LET key == groups[g].key
             group == groups[g].rows
         IN IF ~Truthy(key[1]) \/ IsNa(key[1])
            THEN DetectGroups(groups, pattern_id, now, g + 1, acc)
            ELSE DetectGroups(groups, pattern_id, now, g + 1,
                     DetectStarts(ReportedStarts(group, StoreGet(acc.store, pattern_id)),
                                  group, key, pattern_id, now, 1, acc))

\* The groups of df.groupby, each sorted by time; df does not change during
\* a run, so every pattern sees the same groups.
Groups(df) ==
    [g \in DOMAIN GroupKeys(df) |->
        [key |-> GroupKeys(df)[g], rows |-> GroupOf(df, GroupKeys(df)[g])]]

\* _detect_pattern: the detections of one pattern and the store with the
\* pattern's statistics updated.
detect_pattern(groups, pattern_id, store, now) ==
    DetectGroups(groups, pattern_id, now, 1, [hits |-> <<>>, store |-> store])

\* all_detections.extend(detections), the store carried along.
Extend(all_hits, one) == [hits |-> all_hits \o one.hits, store |-> one.store]

\* The loop of analyze_daily_alerts over the patterns of the store.
RECURSIVE DetectAll(_, _, _, _, _)
DetectAll(ids, groups, now, n, acc) ==
    IF n > Len(ids) THEN acc
    ELSE DetectAll(ids, groups, now, n + 1,
                   Extend(acc.hits, detect_pattern(groups, ids[n], acc.store, now)))

\* ------------------------------------------------------------------- saving
\* _clean_nans on one event record: a Timestamp becomes its string, NaN None.
CleanEvent(e) ==
    [f \in DOMAIN e |->
        IF f = "timestamp" THEN <<ToString(e.timestamp)>>
        ELSE IF f = "rule_id" THEN e.rule_id
        ELSE IF e[f] = NA THEN NONE ELSE e[f]]

CleanDetection(d) ==
    [d EXCEPT !.events = [k \in DOMAIN d.events |-> CleanEvent(d.events[k])]]

clean_nans(detections) == [k \in DOMAIN detections |-> CleanDetection(detections[k])]

\* A JSON file: absent, or holding a value, or holding text that json.load
\* rejects (`content` is then never read).
NoFile == [exists |-> FALSE, parseable |-> TRUE, content |-> <<>>]
FileOf(content) == [exists |-> TRUE, parseable |-> TRUE, content |-> content]
DamagedFile(content) == [exists |-> TRUE, parseable |-> FALSE, content |-> content]

\* Variant of SavedHistory: the file is rewritten with the run's detections.
SavedHistoryRewritten(log, detections) == FileOf(clean_nans(detections))

\* _save_detections: the history file after the call.
SavedHistory(log, detections) ==
    FileOf((IF log.exists THEN log.content ELSE <<>>) \o clean_nans(detections))

\* _save_detections: today's output file after the call.
SavedOutput(detections) == FileOf(clean_nans(detections))

\* ----------------------------------------------------------------- learning
learning_threshold == Rat(75, 100)

is_novel_pattern(detection) == ~StartsWith(detection.pattern_id, <<"LEARNED_">>)

ExtractItem(event) ==
    (IF event.rule_id # 0 THEN "rule_id" :> ToString(event.rule_id) ELSE <<>>)
    @@ (IF Truthy(event.process_name) /\ IsStr(event.process_name)
        THEN "process_name" :> event.process_name ELSE <<>>)
    @@ (IF /\ Truthy(event.registry_key) /\ IsStr(event.registry_key)
           /\ Len(Split(event.registry_key)) > 2
        THEN "registry_contains" :>
                 << Split(event.registry_key)[Len(Split(event.registry_key)) - 1] >>
        ELSE <<>>)
    @@ (IF Truthy(event.file_path) /\ IsStr(event.file_path)
        THEN IF Contains(event.file_path, <<"Start", "up">>)
             THEN "path_contains" :> << <<"Start", "up">> >>
             ELSE IF Contains(event.file_path, <<"Temp">>)
                  THEN "path_contains" :> << <<"Temp">> >>
                  ELSE <<>>
        ELSE <<>>)

ExtractSequence(events) ==
    SelectSeq([k \in DOMAIN events |-> ExtractItem(events[k])],
              LAMBDA seq_item : DOMAIN seq_item # {})

\* Variant of extract_pattern: the window is the duration in whole minutes,
\* without the five minutes added.
extract_pattern_tight(detection, now) ==
    IF Len(ExtractSequence(detection.events)) < 2 THEN <<>>
    ELSE << [name |-> <<"Learned Pattern - ">> \o detection.pattern_name \o <<" Variant">>,
             mitre_id |-> detection.mitre_id,
             severity |-> detection.reclassified_severity,
             sequence |-> ExtractSequence(detection.events),
             time_window_minutes |-> detection.duration_seconds \div 60,
             confidence_base |-> RatMul(detection.confidence, Rat(9, 10)),
             detection_count |-> 1,
             false_positive_count |-> 0,
             last_seen |-> <<now>>,
             learned_from |-> detection.detection_id,
             learned_date |-> <<now>>] >>

\* Variant of extract_pattern: the confidence is copied, not scaled by 0.9.
extract_pattern_unscaled(detection, now) ==
    LET sequence == ExtractSequence(detection.events) IN
    IF Len(sequence) < 2 THEN <<>>
    ELSE << [name |-> <<"Learned Pattern - ">> \o detection.pattern_name \o <<" Variant">>,
             mitre_id |-> detection.mitre_id,
             severity |-> detection.reclassified_severity,
             sequence |-> sequence,
             time_window_minutes |-> (detection.duration_seconds \div 60) + 5,
             confidence_base |-> detection.confidence,
             detection_count |-> 1,
             false_positive_count |-> 0,
             last_seen |-> <<now>>,
             learned_from |-> detection.detection_id,
             learned_date |-> <<now>>] >>

\* _extract_pattern; <<>> stands for the None it returns.
extract_pattern(detection, now) ==
    LET sequence == ExtractSequence(detection.events) IN
    IF Len(sequence) < 2 THEN <<>>
    ELSE << [name |-> <<"Learned Pattern - ">> \o detection.pattern_name \o <<" Variant">>,
             mitre_id |-> detection.mitre_id,
             severity |-> detection.reclassified_severity,
             sequence |-> sequence,
             time_window_minutes |-> (detection.duration_seconds \div 60) + 5,
             confidence_base |-> RatMul(detection.confidence, Rat(9, 10)),
             detection_count |-> 1,
             false_positive_count |-> 0,
             last_seen |-> <<now>>,
             learned_from |-> detection.detection_id,
             learned_date |-> <<now>>] >>

\* strftime('%Y%m%d') of the run time: two consecutive runs share a date.
Date(now) == (now + 1) \div 2

LearnedId(now, learned) == <<"LEARNED_", ToString(Date(now)), "_", ToString(learned)>>

\* Variant of Learn: the confidence must exceed the threshold.
LearnAboveThreshold(acc, detection, new_pattern, now) ==
    IF /\ RatLt(learning_threshold, detection.confidence)
       /\ is_novel_pattern(detection)
       /\ new_pattern # <<>>
    THEN [store |-> StorePut(acc.store, LearnedId(now, acc.learned), new_pattern[1]),
          learned |-> acc.learned + 1]
    ELSE acc

\* The body of the loop of _learn_new_patterns; acc is [store, learned].
Learn(acc, detection, new_pattern, now) ==
    IF /\ RatLe(learning_threshold, detection.confidence)
       /\ is_novel_pattern(detection)
       /\ new_pattern # <<>>
    THEN [store |-> StorePut(acc.store, LearnedId(now, acc.learned), new_pattern[1]),
          learned |-> acc.learned + 1]
    ELSE acc

RECURSIVE LearnFrom(_, _, _, _)
LearnFrom(detections, now, k, acc) ==
    IF k > Len(detections) THEN acc
    ELSE LearnFrom(detections, now, k + 1,
                   Learn(acc, detections[k], extract_pattern(detections[k], now), now))

\* _learn_new_patterns: the store in memory and the number learned.
learn_new_patterns(detections, store, now) ==
    LearnFrom(detections, now, 1, [store |-> store, learned |-> 0])

\* ------------------------------------------------------------- construction
\* _load_patterns
load_patterns(db) == IF db.exists THEN db.content ELSE EmptyStore

\* Variant of MergeBase: every seed pattern is written, present or not.
RECURSIVE MergeBaseOverwriting(_, _)
MergeBaseOverwriting(store, n) ==
    IF n > Len(base_pattern_ids) THEN store
    ELSE MergeBaseOverwriting(StorePut(store, base_pattern_ids[n],
                                       base_patterns(base_pattern_ids[n])),
                              n + 1)

\* The merge loop of _initialize_base_patterns.
RECURSIVE MergeBase(_, _)
MergeBase(store, n) ==
    IF n > Len(base_pattern_ids) THEN store
    ELSE MergeBase(IF InStore(store, base_pattern_ids[n]) THEN store
                   ELSE StorePut(store, base_pattern_ids[n],
                                 base_patterns(base_pattern_ids[n])),
                   n + 1)

initialize_base_patterns(store) == MergeBase(store, 1)

\* ------------------------------------------------------------------- inputs
MaxAlerts == 4
MaxRuns == 2

MalwarePath == <<"C:", BS, "Users", BS, "victim", BS, "malware.exe">>
RunKey == <<"HKCU", BS, "Software", BS, "CurrentVersion", BS, "Run", BS, "Evil">>
StartupPath ==
    <<"C:", BS, "AppData", BS, "Roaming", BS, "Start", " Menu", BS, "Programs", BS,
      "Start", "up", BS, "evil.exe">>
ShortcutPath == <<"C:", BS, "Users", BS, "victim", BS, "Desktop", BS, "evil", ".lnk">>

Alert(t, agent, user, rule, file, proc, cmd, key, value, parent) ==
    [timestamp |-> t, agent_name |-> agent, user |-> user, rule_id |-> rule,
     file_path |-> file, process_name |-> proc, process_cmdline |-> cmd,
     registry_key |-> key, registry_value |-> value, parent_process |-> parent]

\* The rows an alert export can hold, in the order of the CSV file.
AlertPool ==
    << Alert(15, <<"h1">>, <<"u1">>, 18101, NA, NA, NA, RunKey, MalwarePath, NA),
       Alert(10, <<"h1">>, <<"u1">>, 553, MalwarePath, NA, NA, NA, NA, NA),
       Alert(0, <<"h1">>, <<"u1">>, 18101, NA, NA, NA, RunKey,
             <<"C:", BS, "Windows", BS, "other.exe">>, NA),
       Alert(1810, <<"h1">>, <<"u1">>, 18101, NA, NA, NA, RunKey, MalwarePath, NA),
       Alert(1811, <<"h1">>, <<"u1">>, 18101, NA, NA, NA, RunKey, MalwarePath, NA),
       Alert(20, <<"h1">>, <<"u1">>, 60120, NA, <<"SchTasks.exe">>,
             <<"/create /tn EvilTask /tr ">> \o MalwarePath, NA, NA, <<"WINWORD.EXE">>),
       Alert(0, <<"h2">>, <<"u1">>, 553, StartupPath, NA, NA, NA, NA, NA),
       Alert(900, <<"h2">>, <<"u1">>, 550, ShortcutPath, NA, NA, NA, NA, NA) >>

\* The batches of at most n alerts: the sub-sequences of the pool.
Batches(n) ==
    { SelectSeq(AlertPool, LAMBDA a : a \in chosen) :
        chosen \in { c \in SUBSET { AlertPool[k] : k \in DOMAIN AlertPool } :
                        Cardinality(c) <= n } }

\* The statistics of the seed patterns in a store file that earlier runs and
\* the analysts' false positive marks have left: <<detection_count,
\* false_positive_count>>.
StoredStatistics(id) ==
    IF id = <<"T1547.001_registry_run">> THEN <<10, 5>> ELSE <<1, 3>>

StoredSeeds ==
    [ids |-> base_pattern_ids,
     defs |-> [n \in DOMAIN base_pattern_ids |->
                 [base_patterns(base_pattern_ids[n]) EXCEPT
                     !.detection_count = StoredStatistics(base_pattern_ids[n])[1],
                     !.false_positive_count = StoredStatistics(base_pattern_ids[n])[2],
                     !.last_seen = <<0>>]]]

\* The pattern store file a first process can find: none, or one with
\* statistics.
InitialStores == {NoFile, FileOf(StoredSeeds)}

\* -------------------------------------------------------------------- state
VARIABLES
    patterns,           \* self.patterns
    patterns_db,        \* the pattern store file
    detections_log,     \* the detection history file
    detection_output,   \* today's output file
    df,                 \* the alerts of the last run
    evaluated,          \* self.patterns as the last run found it
    hits,               \* all_detections of the last run, each with its match_result
    now,                \* the number of runs so far, the clock of datetime.now()
    ingested,           \* the number of alerts analysed so far
    raised              \* the exception the last call let reach its caller, or "none"

vars ==
    <<patterns, patterns_db, detections_log, detection_output, df, evaluated, hits, now,
      ingested, raised>>

\* all_detections, the value the last run returned.
Detections(found_hits) == [k \in DOMAIN found_hits |-> found_hits[k].detection]
result == Detections(hits)

\* __init__: load the store, merge the seed patterns, save.
Constructed(db) == initialize_base_patterns(load_patterns(db))

Init ==
    /\ \E db \in InitialStores :
          /\ patterns = Constructed(db)
          /\ patterns_db = FileOf(Constructed(db))
    /\ detections_log = NoFile
    /\ detection_output = NoFile
    /\ df = <<>>
    /\ evaluated = EmptyStore
    /\ hits = <<>>
    /\ now = 0
    /\ ingested = 0
    /\ raised = "none"

\* A new process: PersistenceDetector() on the files the last one left.
Restart ==
    \E store \in {Constructed(patterns_db)} :
        /\ patterns' = store
        /\ patterns_db' = FileOf(store)
        /\ df' = <<>>
        /\ evaluated' = EmptyStore
        /\ hits' = <<>>
        /\ raised' = "none"
        /\ UNCHANGED <<detections_log, detection_output, now, ingested>>

\* The run once its detections are saved and learnt from.
Saved(found_hits, all_detections, learnt, db, log) ==
    [hits |-> found_hits,
     patterns |-> learnt.store,
     patterns_db |-> IF learnt.learned > 0 THEN FileOf(learnt.store) ELSE db,
     detections_log |-> SavedHistory(log, all_detections),
     detection_output |-> SavedOutput(all_detections)]

\* `if all_detections:` save the detections and learn from them.
SaveAndLearn(found, all_detections, db, log, output, time) ==
    IF all_detections # <<>>
    THEN Saved(found.hits, all_detections,
               learn_new_patterns(all_detections, found.store, time), db, log)
    ELSE [hits |-> found.hits,
          patterns |-> found.store,
          patterns_db |-> db,
          detections_log |-> log,
          detection_output |-> output]

\* analyze_daily_alerts after the loop over the patterns.
Finish(found, db, log, output, time) ==
    SaveAndLearn(found, Detections(found.hits), db, log, output, time)

\* analyze_daily_alerts on a non-empty batch: the detector's memory and
\* files when it returns, and what it returns.
\* Variant of analyze_daily_alerts: the patterns learned from a first pass
\* over the alerts are in the store when the patterns are evaluated.
LearnedFirst(found, time) ==
    learn_new_patterns(Detections(found.hits), found.store, time).store

DetectWith(store, groups, time) ==
    DetectAll(store.ids, groups, time, 1, [hits |-> <<>>, store |-> store])

analyze_learning_first(store, db, log, output, alerts, time) ==
    Finish(DetectWith(LearnedFirst(DetectWith(store, Groups(alerts), time), time),
                      Groups(alerts), time),
           db, log, output, time)

analyze_daily_alerts(store, db, log, output, alerts, time) ==
    Finish(DetectAll(store.ids, Groups(alerts), time, 1, [hits |-> <<>>, store |-> store]),
           db, log, output, time)

\* One run of analyze_daily_alerts(csv_file) on the batch `alerts`.
Analyze(alerts) ==
    /\ now < MaxRuns
    /\ now' = now + 1
    /\ ingested' = ingested + Len(alerts)
    /\ df' = alerts
    /\ evaluated' = patterns
    /\ raised' = "none"
    /\ IF Len(alerts) = 0
       THEN /\ hits' = <<>>
            /\ UNCHANGED <<patterns, patterns_db, detections_log, detection_output>>
       ELSE \E out \in {analyze_daily_alerts(patterns, patterns_db, detections_log,
                                           detection_output, alerts, now + 1)} :
               /\ hits' = out.hits
               /\ patterns' = out.patterns
               /\ patterns_db' = out.patterns_db
               /\ detections_log' = out.detections_log
               /\ detection_output' = out.detection_output

Run == \E alerts \in Batches(MaxAlerts - ingested) : Analyze(alerts)

Next == Run \/ Restart

Spec == Init /\ [][Next]_vars

\* ------------------------------------------------------------------- claims
\* What the claims speak of: the groups of the last run, the patterns it
\* evaluated, the closed window opened at a row, and whether a list of
\* events satisfies a pattern.
DfKeys ==
    { <<df[r].agent_name, df[r].user>> :
        r \in {q \in DOMAIN df : ~IsNa(df[q].agent_name) /\ ~IsNa(df[q].user)} }

EvaluatedIds == { evaluated.ids[n] : n \in DOMAIN evaluated.ids }

PatternOf(pid) == StoreGet(evaluated, pid)

ClosedWindow(group, i, pattern_def) ==
    SelectSeq(group,
              LAMBDA e : /\ group[i].timestamp <= e.timestamp
                         /\ e.timestamp - group[i].timestamp
                               <= 60 * pattern_def.time_window_minutes)

AllSatisfied(events, pattern_def) ==
    \A j \in DOMAIN pattern_def.sequence :
        \E k \in DOMAIN events : CriterionOK(events[k], pattern_def.sequence[j])

CorrelationHolds(events, pattern_def) ==
    Has(pattern_def, "correlation") =>
        check_correlation(events, pattern_def.correlation, <<>>)

Qualifies(group, i, pattern_def) ==
    /\ AllSatisfied(ClosedWindow(group, i, pattern_def), pattern_def)
    /\ CorrelationHolds(ClosedWindow(group, i, pattern_def), pattern_def)

QualifyingStarts(pid, key) ==
    { i \in DOMAIN GroupOf(df, key) : Qualifies(GroupOf(df, key), i, PatternOf(pid)) }

HitsOf(pid, key) ==
    { k \in DOMAIN hits : /\ hits[k].detection.pattern_id = pid
                          /\ hits[k].detection.agent = key[1]
                          /\ hits[k].detection.user = key[2] }

HitsOfPattern(pid) == { k \in DOMAIN hits : hits[k].detection.pattern_id = pid }

RegistryRun == <<"T1547.001_registry_run">>

\* The rows of the pool by what they are.
RegistryWrite5sLater == AlertPool[1]
FileCreation == AlertPool[2]
RegistryWriteOtherFile == AlertPool[3]
RegistryWriteAtWindowEnd == AlertPool[4]
RegistryWriteAfterWindow == AlertPool[5]
SchtasksProcess == AlertPool[6]
StartupFile == AlertPool[7]
DesktopShortcut == AlertPool[8]

\* C1: in one run, for every pattern and every (agent, user) group at most
\* one detection is emitted, however many window starts of the group match.
C1_AtMostOneDetectionPerGroup ==
    \A k1, k2 \in DOMAIN hits :
        ( /\ hits[k1].detection.pattern_id = hits[k2].detection.pattern_id
          /\ hits[k1].detection.agent = hits[k2].detection.agent
          /\ hits[k1].detection.user = hits[k2].detection.user ) => k1 = k2

\* A group in which two window starts qualify for one pattern, and the run
\* reported one detection for it.
C1_Witness ==
    \E pid \in EvaluatedIds, key \in DfKeys :
        /\ Cardinality(QualifyingStarts(pid, key)) >= 2
        /\ Cardinality(HitsOf(pid, key)) = 1

\* C2: whenever a group holds a window (opened at one of its events) in
\* which every criterion of an evaluated pattern is satisfied and the
\* pattern's correlation holds, the run emits exactly one detection of that
\* pattern for that group; the rule 553 creation of malware.exe followed 5 s
\* later by the rule 18101 write under the Run key whose value names
\* malware.exe gives exactly one T1547.001_registry_run detection.
C2_QualifyingWindowDetectedOnce ==
    /\ \A pid \in EvaluatedIds, key \in DfKeys :
          QualifyingStarts(pid, key) # {} => Cardinality(HitsOf(pid, key)) = 1
    /\ df = <<RegistryWrite5sLater, FileCreation>> =>
          Cardinality(HitsOfPattern(RegistryRun)) = 1

\* The two events of the scenario were analysed and the one detection of
\* the registry pattern covers both.
C2_Witness ==
    /\ df = <<RegistryWrite5sLater, FileCreation>>
    /\ \E k \in DOMAIN hits :
          /\ hits[k].detection.pattern_id = RegistryRun
          /\ hits[k].detection.events = <<FileCreation, RegistryWrite5sLater>>
          /\ hits[k].detection.duration_seconds = 5

\* C3: a window in which every criterion is satisfied but the declared
\* correlation fails yields no detection, whatever other events it holds;
\* the file creation with a registry write that does not name the file
\* yields no detection of the registry pattern.
C3_UncorrelatedWindowRejected ==
    /\ \A k \in DOMAIN hits :
          CorrelationHolds(hits[k].detection.events,
                           PatternOf(hits[k].detection.pattern_id))
    /\ \A pid \in EvaluatedIds, key \in DfKeys :
          \A i \in DOMAIN GroupOf(df, key) :
              ( /\ AllSatisfied(ClosedWindow(GroupOf(df, key), i, PatternOf(pid)),
                                PatternOf(pid))
                /\ ~CorrelationHolds(ClosedWindow(GroupOf(df, key), i, PatternOf(pid)),
                                     PatternOf(pid)) )
              => \A k \in HitsOf(pid, key) :
                     hits[k].detection.events
                        # ClosedWindow(GroupOf(df, key), i, PatternOf(pid))
    /\ df = <<FileCreation, RegistryWriteOtherFile>> => HitsOfPattern(RegistryRun) = {}

\* A window whose criteria are satisfied and whose correlation fails, which
\* holds the events of a later window that qualifies: another binding
\* existed inside it, and no detection was reported for it.
C3_Witness ==
    \E pid \in EvaluatedIds, key \in DfKeys :
        \E i, j \in DOMAIN GroupOf(df, key) :
            LET group == GroupOf(df, key)
                p == PatternOf(pid)
            IN /\ i < j
               /\ AllSatisfied(ClosedWindow(group, i, p), p)
               /\ ~CorrelationHolds(ClosedWindow(group, i, p), p)
               /\ Qualifies(group, j, p)
               /\ \A e \in DOMAIN ClosedWindow(group, j, p) :
                      \E f \in DOMAIN ClosedWindow(group, i, p) :
                          ClosedWindow(group, i, p)[f] = ClosedWindow(group, j, p)[e]
               /\ \A k \in HitsOf(pid, key) :
                      hits[k].detection.events # ClosedWindow(group, i, p)

\* C4: a detection of a pattern is emitted only if its reported window holds,
\* for every criterion of the pattern, an event that satisfies it; a group
\* with no event for some criterion yields no detection of the pattern, and
\* the schtasks.exe process event alone yields no detection at all.
C4_EveryCriterionHasAnEvent ==
    /\ \A k \in DOMAIN hits :
          AllSatisfied(hits[k].detection.events, PatternOf(hits[k].detection.pattern_id))
    /\ \A pid \in EvaluatedIds, key \in DfKeys :
          ~AllSatisfied(GroupOf(df, key), PatternOf(pid)) => HitsOf(pid, key) = {}
    /\ df = <<SchtasksProcess>> => hits = <<>>

\* The schtasks.exe event was analysed alone and nothing was detected.
C4_Witness ==
    /\ df = <<SchtasksProcess>>
    /\ evaluated # EmptyStore
    /\ hits = <<>>

\* C5: the window opened at an event is the closed interval from its
\* timestamp to that plus time_window_minutes: the events of a detection
\* are exactly the events of its group inside the closed interval opened at
\* its first event, and a group without a detection has no closed window
\* that qualifies.
C5_WindowIsClosedInterval ==
    /\ \A k \in DOMAIN hits :
          LET d == hits[k].detection
              group == GroupOf(df, <<d.agent, d.user>>)
          IN \E i \in DOMAIN group :
                 /\ d.start_time = <<ToString(group[i].timestamp)>>
                 /\ d.events = ClosedWindow(group, i, PatternOf(d.pattern_id))
    /\ \A pid \in EvaluatedIds, key \in DfKeys :
          HitsOf(pid, key) = {} => QualifyingStarts(pid, key) = {}

\* A detection whose last event lies exactly time_window_minutes after its
\* first and is needed for the match, while an event of the group one
\* second later is outside the detection.
C5_Witness ==
    \E k \in DOMAIN hits :
        LET d == hits[k].detection
            p == PatternOf(d.pattern_id)
            group == GroupOf(df, <<d.agent, d.user>>)
        IN /\ d.duration_seconds = 60 * p.time_window_minutes
           /\ ~AllSatisfied(SubSeq(d.events, 1, Len(d.events) - 1), p)
           /\ \E g \in DOMAIN group :
                 /\ group[g].timestamp
                       = d.events[1].timestamp + 60 * p.time_window_minutes + 1
                 /\ \A e \in DOMAIN d.events : d.events[e] # group[g]

\* C6 (as stated): within one match attempt every criterion is bound to a
\* distinct event of the window, so a pattern with k criteria never matches
\* a window holding fewer than k events.
C6_Original ==
    \A k \in DOMAIN hits :
        LET m == hits[k].match_result.matched_indices
        IN /\ \A j1, j2 \in DOMAIN m : m[j1] = m[j2] => j1 = j2
           /\ hits[k].detection.event_count >= Len(PatternOf(hits[k].detection.pattern_id).sequence)

\* C6 (amended): within one match attempt every criterion of the pattern is
\* bound to an event of the window that satisfies it; the bound events need
\* not be distinct, so a pattern with k criteria can match a window holding
\* fewer than k events, but never an empty one.
C6_EveryCriterionBoundInsideWindow ==
    \A k \in DOMAIN hits :
        LET d == hits[k].detection
            m == hits[k].match_result.matched_indices
            p == PatternOf(d.pattern_id)
            group == GroupOf(df, <<d.agent, d.user>>)
        IN /\ hits[k].match_result.matched
           /\ Len(m) = Len(p.sequence)
           /\ d.event_count >= 1
           /\ \A j \in DOMAIN m :
                 /\ m[j] \in DOMAIN group
                 /\ \E e \in DOMAIN d.events : d.events[e] = group[m[j]]
                 /\ CriterionOK(group[m[j]], p.sequence[j])

\* A detection in which one event is bound to two criteria and whose window
\* holds fewer events than the pattern has criteria.
C6_Witness ==
    \E k \in DOMAIN hits :
        LET m == hits[k].match_result.matched_indices
        IN /\ \E j1, j2 \in DOMAIN m : j1 # j2 /\ m[j1] = m[j2]
           /\ hits[k].detection.event_count
                 < Len(PatternOf(hits[k].detection.pattern_id).sequence)

\* C7: every confidence attached to a detection lies in [0.0, 1.0], for
\* every pattern of the store, whatever non-negative detection_count and
\* false_positive_count the persisted store gave it.
C7_Original ==
    \A k \in DOMAIN hits :
        /\ RatLe(RatInt(0), hits[k].detection.confidence)
        /\ RatLe(hits[k].detection.confidence, RatInt(1))

\* C8: the confidence is min(1.0, (confidence_base + duration boost + path
\* boost + parent boost) * d), the duration boost being 0.15 below 60 s,
\* 0.10 below 300 s and 0 otherwise, and d = 1 - 0.5 * false_positive_count
\* / detection_count when detection_count > 0 and 1 when it is 0, with the
\* counts the pattern has when the detection is scored; with no boost and
\* no prior detection it is confidence_base, and with base 0.8, counts 10
\* and 5 and no boost it is 0.6.
C8_ConfidenceFormula ==
    \A k \in DOMAIN hits :
        LET d == hits[k].detection
            p == PatternOf(d.pattern_id)
            count == p.detection_count
                        + Cardinality({m \in 1..(k - 1) :
                                          hits[m].detection.pattern_id = d.pattern_id})
            fp == p.false_positive_count
            boost == RatAdd(IF d.duration_seconds < 60 THEN Rat(15, 100)
                            ELSE IF d.duration_seconds < 300 THEN Rat(10, 100)
                            ELSE RatInt(0),
                            RatAdd(PathBoost(d.events), ParentBoost(d.events)))
            factor == IF count > 0 THEN Rat(2 * count - fp, 2 * count) ELSE RatInt(1)
            total == RatMul(RatAdd(p.confidence_base, boost), factor)
        IN /\ d.confidence = IF RatLt(RatInt(1), total) THEN RatInt(1) ELSE total
           /\ (boost = RatInt(0) /\ count = 0) => d.confidence = p.confidence_base
           /\ ( /\ boost = RatInt(0) /\ p.confidence_base = Rat(8, 10)
                /\ count = 10 /\ fp = 5 ) => d.confidence = Rat(6, 10)

\* A detection without boosts of a pattern with base 0.8, ten detections and
\* five false positives, scored 0.6.
C8_Witness ==
    \E k \in DOMAIN hits :
        LET d == hits[k].detection
            p == PatternOf(d.pattern_id)
        IN /\ p.confidence_base = Rat(8, 10)
           /\ p.detection_count = 10
           /\ p.false_positive_count = 5
           /\ d.duration_seconds >= 300
           /\ PathBoost(d.events) = RatInt(0)
           /\ ParentBoost(d.events) = RatInt(0)
           /\ d.confidence = Rat(6, 10)

\* C9: after a run that emits n >= 1 detections of a pattern, the persisted
\* pattern store holds that pattern with detection_count increased by
\* exactly n and last_seen set to the run time.
C9_Original ==
    \A pid \in EvaluatedIds :
        HitsOfPattern(pid) # {} =>
            /\ patterns_db.exists
            /\ InStore(patterns_db.content, pid)
            /\ StoreGet(patterns_db.content, pid).detection_count
                  = PatternOf(pid).detection_count + Cardinality(HitsOfPattern(pid))
            /\ StoreGet(patterns_db.content, pid).last_seen = <<now>>

\* C10: the persisted detection history is append-only: a run appends
\* exactly the detections it returns to the history it found, and no other
\* step changes the history.
C10_HistoryAppendOnly ==
    [][ detections_log'.content
           = detections_log.content
               \o (IF now' # now THEN clean_nans(result') ELSE <<>>) ]_vars

\* The history holds the detections of an earlier run followed by those of
\* the last run.
C10_Witness ==
    /\ hits # <<>>
    /\ Len(detections_log.content) > Len(hits)
    /\ SubSeq(detections_log.content,
              Len(detections_log.content) - Len(hits) + 1,
              Len(detections_log.content)) = clean_nans(result)

\* A run has just returned: `evaluated` holds the store it started from.
RunCompleted == evaluated # EmptyStore

\* C11 (as stated): after every completed run the today's-output file holds
\* exactly the detections of that run, never detections left over from an
\* earlier run, also when the run found nothing.
C11_Original ==
    RunCompleted => detection_output.content = clean_nans(result)

\* The fields of a pattern that are not statistics.
NonStatistics(pattern_def) ==
    [f \in DOMAIN pattern_def \ {"detection_count", "false_positive_count", "last_seen"}
        |-> pattern_def[f]]

\* C12 (as stated): a run never overwrites or removes an entry of the store
\* it started from: every id is still present after the run and the fields
\* of its pattern other than the statistics are unchanged, so the id chosen
\* for a learned pattern was not present before.
C12_Original ==
    RunCompleted =>
        \A id \in EvaluatedIds :
            /\ InStore(patterns, id)
            /\ NonStatistics(StoreGet(patterns, id)) = NonStatistics(PatternOf(id))

\* ------------------------------------------------ the initializer by itself
\* _initialize_base_patterns called again and again on the store a process
\* has loaded, whatever an earlier process or an editor left in the file.
MaxInits == 2

LearnedEntryId == <<"LEARNED_", "0", "_", "0">>

LearnedEntry ==
    [base_patterns(<<"T1547.001_registry_run">>) EXCEPT
        !.name = <<"Learned Pattern - ", "Registry Run Keys Persistence", " Variant">>,
        !.confidence_base = Rat(72, 100),
        !.detection_count = 1]

\* A seed id as a store file can hold it: as seeded, with statistics, or
\* with its definition edited.
SeedVariants == {"seeded", "stored", "edited"}

SeedVariant(id, variant) ==
    IF variant = "seeded" THEN base_patterns(id)
    ELSE IF variant = "stored" THEN StoreGet(StoredSeeds, id)
    ELSE [StoreGet(StoredSeeds, id) EXCEPT
             !.severity = "LOW",
             !.time_window_minutes = @ + 1,
             !.sequence = SubSeq(@, 1, 1)]

StoreWith(chosen, variant, learned) ==
    LET ids == SelectSeq(base_pattern_ids, LAMBDA id : id \in chosen)
        defs == [n \in DOMAIN ids |-> SeedVariant(ids[n], variant)]
    IN IF learned
       THEN [ids |-> <<LearnedEntryId>> \o ids, defs |-> <<LearnedEntry>> \o defs]
       ELSE [ids |-> ids, defs |-> defs]

StoreFiles ==
    {NoFile} \cup
    { FileOf(StoreWith(chosen, variant, learned)) :
        chosen \in SUBSET {base_pattern_ids[n] : n \in DOMAIN base_pattern_ids},
        variant \in SeedVariants,
        learned \in BOOLEAN }

\* self.patterns as _load_patterns returned it; `evaluated` is the store
\* before the last initialization and `now` counts the initializations.
InitLoaded ==
    /\ patterns_db \in StoreFiles
    /\ patterns = load_patterns(patterns_db)
    /\ evaluated = load_patterns(patterns_db)
    /\ detections_log = NoFile
    /\ detection_output = NoFile
    /\ df = <<>>
    /\ hits = <<>>
    /\ now = 0
    /\ ingested = 0
    /\ raised = "none"

\* _initialize_base_patterns(): merge the seeds, save the store.
Initialize ==
    /\ now < MaxInits
    /\ now' = now + 1
    /\ evaluated' = patterns
    /\ \E store \in {initialize_base_patterns(patterns)} :
          /\ patterns' = store
          /\ patterns_db' = FileOf(store)
    /\ UNCHANGED <<detections_log, detection_output, df, hits, ingested, raised>>

SpecInitializer == InitLoaded /\ [][Initialize]_vars

SeedIds == {base_pattern_ids[n] : n \in DOMAIN base_pattern_ids}

\* C13: seed initialization is idempotent: on any store it leaves every
\* entry it finds untouched and in place (also a seed id whose statistics
\* or definition were changed), adds each missing seed id exactly once with
\* its seed definition, saves the store, and a further initialization
\* changes nothing.
C13_SeedInitializationIdempotent ==
    now >= 1 =>
        /\ Len(patterns.ids) >= Len(evaluated.ids)
        /\ \A n \in DOMAIN evaluated.ids :
              /\ patterns.ids[n] = evaluated.ids[n]
              /\ patterns.defs[n] = evaluated.defs[n]
        /\ \A id \in SeedIds :
              Cardinality({n \in DOMAIN patterns.ids : patterns.ids[n] = id}) = 1
        /\ \A n \in DOMAIN patterns.ids :
              n > Len(evaluated.ids) =>
                  /\ patterns.ids[n] \in SeedIds
                  /\ ~InStore(evaluated, patterns.ids[n])
                  /\ patterns.defs[n] = base_patterns(patterns.ids[n])
        /\ patterns_db = FileOf(patterns)
        /\ initialize_base_patterns(patterns) = patterns
        /\ now >= 2 => patterns = evaluated

\* The first initialization of a store that held a learned entry and an
\* edited seed pattern and lacked another seed, which it added.
C13_Witness ==
    /\ now = 1
    /\ InStore(evaluated, LearnedEntryId)
    /\ \E id \in SeedIds :
          /\ InStore(evaluated, id)
          /\ StoreGet(evaluated, id) = SeedVariant(id, "edited")
          /\ StoreGet(patterns, id) # base_patterns(id)
    /\ \E id \in SeedIds : ~InStore(evaluated, id) /\ InStore(patterns, id)

\* ------------------------------------------- runs from a store near the threshold
\* A store file in which the registry pattern has 8 detections and 1 false
\* positive, the scheduled task pattern 55 and 18, and the others none.
ThresholdStatistics(id) ==
    IF id = <<"T1547.001_registry_run">> THEN <<8, 1>>
    ELSE IF id = <<"T1053.005_scheduled_task">> THEN <<55, 18>>
    ELSE <<0, 0>>

ThresholdSeeds ==
    [ids |-> base_pattern_ids,
     defs |-> [n \in DOMAIN base_pattern_ids |->
                 [base_patterns(base_pattern_ids[n]) EXCEPT
                     !.detection_count = ThresholdStatistics(base_pattern_ids[n])[1],
                     !.false_positive_count = ThresholdStatistics(base_pattern_ids[n])[2]]]]

InitThreshold ==
    /\ patterns = Constructed(FileOf(ThresholdSeeds))
    /\ patterns_db = FileOf(Constructed(FileOf(ThresholdSeeds)))
    /\ detections_log = NoFile
    /\ detection_output = NoFile
    /\ df = <<>>
    /\ evaluated = EmptyStore
    /\ hits = <<>>
    /\ now = 0
    /\ ingested = 0
    /\ raised = "none"

SpecThreshold == InitThreshold /\ [][Next]_vars

\* A detection the learner learns from.
Learnable(detection) ==
    /\ RatLe(Rat(75, 100), detection.confidence)
    /\ ~StartsWith(detection.pattern_id, <<"LEARNED_">>)
    /\ Cardinality({k \in DOMAIN detection.events :
                       DOMAIN ExtractItem(detection.events[k]) # {}}) >= 2

\* The entries of the store that the last run wrote as learned patterns.
LearnedNow ==
    { n \in DOMAIN patterns.ids :
        /\ Has(patterns.defs[n], "learned_date")
        /\ patterns.defs[n].learned_date = <<now>> }

\* C14: a detection of a run puts a learned pattern into the store if and
\* only if its confidence is at least learning_threshold (0.75, inclusive),
\* its pattern_id does not start with LEARNED_ and at least 2 of its events
\* give a criterion: the run writes one learned entry per such detection, in
\* order, learned from it, and saves the store; no other detection adds an
\* entry.
C14_LearnedIffQualifying ==
    RunCompleted =>
        /\ Cardinality(LearnedNow) = Len(SelectSeq(result, Learnable))
        /\ \A j \in DOMAIN SelectSeq(result, Learnable) :
              /\ InStore(patterns, LearnedId(now, j - 1))
              /\ StoreGet(patterns, LearnedId(now, j - 1)).learned_from
                    = SelectSeq(result, Learnable)[j].detection_id
              /\ StoreGet(patterns, LearnedId(now, j - 1)).learned_date = <<now>>
        /\ { patterns.ids[n] : n \in DOMAIN patterns.ids }
              = EvaluatedIds
                  \cup { LearnedId(now, j - 1) : j \in DOMAIN SelectSeq(result, Learnable) }
        /\ SelectSeq(result, Learnable) # <<>> => patterns_db = FileOf(patterns)

\* A run with a detection scored exactly 0.75 that was learned from, and a
\* detection of two events scored below 0.75 that was not.
C14_Witness ==
    /\ RunCompleted
    /\ \E k \in DOMAIN result :
          /\ result[k].confidence = Rat(75, 100)
          /\ \E n \in LearnedNow : patterns.defs[n].learned_from = result[k].detection_id
    /\ \E k \in DOMAIN result :
          /\ RatLt(result[k].confidence, Rat(75, 100))
          /\ result[k].event_count >= 2
          /\ ~Learnable(result[k])

\* C15: a pattern learned from a detection has confidence_base 0.9 times
\* the detection's confidence, time_window_minutes floor(duration_seconds /
\* 60) + 5, the detection's reclassified severity, detection_count 1 and
\* false_positive_count 0; a detection scored 0.92 with 3 events that give
\* a criterion yields one learned pattern of 3 criteria with confidence_base
\* 0.828.
C15_LearnedPatternFields ==
    RunCompleted =>
        \A j \in DOMAIN SelectSeq(result, Learnable) :
            LET d == SelectSeq(result, Learnable)[j]
                p == StoreGet(patterns, LearnedId(now, j - 1))
            IN /\ p.confidence_base = RatMul(Rat(9, 10), d.confidence)
               /\ p.time_window_minutes = (d.duration_seconds \div 60) + 5
               /\ p.severity = d.reclassified_severity
               /\ p.detection_count = 1
               /\ p.false_positive_count = 0
               /\ p.learned_from = d.detection_id
               /\ ( /\ d.confidence = Rat(92, 100)
                    /\ Len(ExtractSequence(d.events)) = 3 )
                  => /\ p.confidence_base = Rat(828, 1000)
                     /\ Len(p.sequence) = 3

\* A detection scored 0.92 whose three events each give a criterion, and the
\* pattern learned from it with confidence_base 0.828.
C15_Witness ==
    /\ RunCompleted
    /\ \E j \in DOMAIN SelectSeq(result, Learnable) :
          /\ SelectSeq(result, Learnable)[j].confidence = Rat(92, 100)
          /\ SelectSeq(result, Learnable)[j].event_count = 3
          /\ Len(ExtractSequence(SelectSeq(result, Learnable)[j].events)) = 3
          /\ StoreGet(patterns, LearnedId(now, j - 1)).confidence_base = Rat(828, 1000)
          /\ StoreGet(patterns, LearnedId(now, j - 1)).time_window_minutes = 5

\* ------------------------------------------------ damaged files and entries
\* A process started on files as it may find them: the pattern store or the
\* detection history holding text json.load rejects, or a store entry
\* written by hand without its time_window_minutes.
json_load_raises(file) == file.exists /\ ~file.parseable

CustomId == <<"CUSTOM_service_dll">>

CustomEntry ==
    [f \in DOMAIN base_patterns(<<"T1543.003_windows_service">>)
               \ {"time_window_minutes"} |->
        base_patterns(<<"T1543.003_windows_service">>)[f]]

CustomStore ==
    [ids |-> << <<"T1547.001_registry_run">>, CustomId >>,
     defs |-> << base_patterns(<<"T1547.001_registry_run">>), CustomEntry >>]

StoreFilesFound == {NoFile, DamagedFile(EmptyStore), FileOf(CustomStore)}

HistoryFilesFound == {NoFile, DamagedFile(<<>>)}

InitFiles ==
    /\ patterns_db \in StoreFilesFound
    /\ detections_log \in HistoryFilesFound
    /\ patterns = EmptyStore
    /\ detection_output = NoFile
    /\ df = <<>>
    /\ evaluated = EmptyStore
    /\ hits = <<>>
    /\ now = 0
    /\ ingested = 0
    /\ raised = "none"

\* PersistenceDetector(): json.load in _load_patterns is not guarded, so an
\* unparseable store file ends the constructor with its exception.
Construct ==
    IF json_load_raises(patterns_db)
    THEN /\ raised' = "JSONDecodeError"
         /\ patterns' = EmptyStore
         /\ df' = <<>>
         /\ evaluated' = EmptyStore
         /\ hits' = <<>>
         /\ UNCHANGED <<patterns_db, detections_log, detection_output, now, ingested>>
    ELSE Restart

\* The first entry of the store whose time_window_minutes is missing, the
\* key _detect_pattern reads first (0: none).
FirstLacking(store) ==
    IF \E n \in DOMAIN store.defs : ~Has(store.defs[n], "time_window_minutes")
    THEN CHOOSE n \in DOMAIN store.defs :
            /\ ~Has(store.defs[n], "time_window_minutes")
            /\ \A m \in 1..(n - 1) : Has(store.defs[m], "time_window_minutes")
    ELSE 0

\* analyze_daily_alerts left by an exception: nothing is returned, the files
\* are as they were, the statistics updated so far stay in memory.
Aborted(store, db, log, output, exception) ==
    [hits |-> <<>>,
     patterns |-> store,
     patterns_db |-> db,
     detections_log |-> log,
     detection_output |-> output,
     raised |-> exception]

\* The loop over the patterns up to the entry at `last`.
DetectUntil(store, groups, time, last) ==
    DetectAll(SubSeq(store.ids, 1, last), groups, time, 1,
              [hits |-> <<>>, store |-> store])

\* _save_detections loads the history with an unguarded json.load before it
\* writes anything.
FinishOrRaise(found, db, log, output, time) ==
    IF found.hits # <<>> /\ json_load_raises(log)
    THEN Aborted(found.store, db, log, output, "JSONDecodeError")
    ELSE Finish(found, db, log, output, time) @@ [raised |-> "none"]

\* analyze_daily_alerts on a non-empty batch, with the exceptions it lets
\* through: the KeyError of pattern_def['time_window_minutes'] at the first
\* row of the first group, and the JSONDecodeError of the history.
analyze_or_raise(store, db, log, output, alerts, time) ==
    IF Groups(alerts) # <<>> /\ FirstLacking(store) # 0
    THEN Aborted(DetectUntil(store, Groups(alerts), time, FirstLacking(store) - 1).store,
                 db, log, output, "KeyError")
    ELSE FinishOrRaise(DetectUntil(store, Groups(alerts), time, Len(store.ids)),
                       db, log, output, time)

AnalyzeOrRaise(alerts) ==
    /\ patterns # EmptyStore
    /\ raised = "none"
    /\ now < MaxRuns
    /\ now' = now + 1
    /\ ingested' = ingested + Len(alerts)
    /\ df' = alerts
    /\ evaluated' = patterns
    /\ IF Len(alerts) = 0
       THEN /\ hits' = <<>>
            /\ raised' = "none"
            /\ UNCHANGED <<patterns, patterns_db, detections_log, detection_output>>
       ELSE \E out \in {analyze_or_raise(patterns, patterns_db, detections_log,
                                         detection_output, alerts, now + 1)} :
               /\ hits' = out.hits
               /\ patterns' = out.patterns
               /\ patterns_db' = out.patterns_db
               /\ detections_log' = out.detections_log
               /\ detection_output' = out.detection_output
               /\ raised' = out.raised

RunOrRaise == \E alerts \in Batches(MaxAlerts - ingested) : AnalyzeOrRaise(alerts)

NextFiles == Construct \/ RunOrRaise

SpecFiles == InitFiles /\ [][NextFiles]_vars

\* C16 (as stated): a pattern store file or a detection history file that
\* exists but cannot be parsed is treated as empty, the seed patterns are
\* re-applied and the run continues: no error reaches the caller, and a run
\* that ends has evaluated every seed pattern.
C16_Original ==
    /\ raised # "JSONDecodeError"
    /\ RunCompleted => \A id \in SeedIds : id \in EvaluatedIds

\* C17 (as stated): a failure while one pattern is evaluated against one
\* group, such as a stored pattern without a field the matcher reads, does
\* not abort the run: no KeyError reaches the caller, and every pattern
\* that can be evaluated still has its qualifying groups detected and saved.
C17_Original ==
    /\ raised # "KeyError"
    /\ (RunCompleted /\ raised = "none") =>
          \A pid \in {id \in EvaluatedIds : Has(PatternOf(id), "time_window_minutes")},
             key \in DfKeys :
              QualifyingStarts(pid, key) # {} =>
                  \E k \in HitsOf(pid, key) :
                      \E h \in DOMAIN detections_log.content :
                          detections_log.content[h] = CleanDetection(hits[k].detection)

\* ------------------------------------------------- events that lack a field
\* One event against one seq_item of _match_sequence on a frame that need
\* not hold every optional column (a replay CSV holds at least timestamp,
\* agent_name, user and rule_id).  event.get(label) is None for a label the
\* row does not have; event[label] raises KeyError.
Get(event, label) == IF Has(event, label) THEN event[label] ELSE NONE

ProcessNameOK(event, seq_item) ==
    /\ Truthy(Get(event, "process_name"))
    /\ IsStr(event.process_name)
    /\ IsStr(seq_item.process_name)
    /\ Contains(Lower(event.process_name), Lower(seq_item.process_name))

RegistryContainsOK(event, seq_item) ==
    /\ Truthy(Get(event, "registry_key"))
    /\ IsStr(event.registry_key)
    /\ \E k \in DOMAIN seq_item.registry_contains :
           Contains(event.registry_key, seq_item.registry_contains[k])

PathContainsOK(event, seq_item) ==
    /\ Truthy(Get(event, "file_path"))
    /\ IsStr(event.file_path)
    /\ \E k \in DOMAIN seq_item.path_contains :
           Contains(event.file_path, seq_item.path_contains[k])

FileExtensionOK(event, seq_item) ==
    /\ Truthy(event.file_path)
    /\ \E k \in DOMAIN seq_item.file_extension :
           EndsWith(Str(event.file_path), seq_item.file_extension[k])

\* The chain of checks in the order of the code: "continue" (the event is
\* passed over), "matched", or the exception the subscript raises.
item_outcome(event, seq_item) ==
    IF Has(seq_item, "rule_id") /\ ToString(event.rule_id) # seq_item.rule_id
    THEN "continue"
    ELSE IF Has(seq_item, "process_name") /\ ~ProcessNameOK(event, seq_item)
    THEN "continue"
    ELSE IF Has(seq_item, "registry_contains") /\ ~RegistryContainsOK(event, seq_item)
    THEN "continue"
    ELSE IF Has(seq_item, "path_contains") /\ ~PathContainsOK(event, seq_item)
    THEN "continue"
    ELSE IF Has(seq_item, "file_extension") /\ ~Has(event, "file_path")
    THEN "KeyError"
    ELSE IF Has(seq_item, "file_extension") /\ ~FileExtensionOK(event, seq_item)
    THEN "continue"
    ELSE "matched"

\* The ways a row comes to lack a field: an empty CSV cell (NaN), a None or
\* an empty string of the export, a column the file does not have.  Every
\* row holds a rule_id.
OptionalColumns == {"file_path", "process_name", "registry_key"}

WithCell(event, label, value) == [event EXCEPT ![label] = value]

WithoutColumn(event, label) == [f \in DOMAIN event \ {label} |-> event[f]]

EventsFound ==
    LET rows == {AlertPool[k] : k \in DOMAIN AlertPool}
    IN rows
       \cup {WithCell(e, label, value) :
                e \in rows, label \in OptionalColumns, value \in {NA, NONE, <<>>}}
       \cup {WithoutColumn(e, label) : e \in rows, label \in OptionalColumns}

InitCriterion ==
    /\ \E event \in EventsFound : df = <<event>>
    /\ patterns = Constructed(NoFile)
    /\ patterns_db = NoFile
    /\ detections_log = NoFile
    /\ detection_output = NoFile
    /\ evaluated = EmptyStore
    /\ hits = <<>>
    /\ now = 0
    /\ ingested = 0
    /\ raised = "none"

\* One seq_item of a stored pattern is evaluated against the event.
EvaluateCriterion ==
    /\ hits = <<>>
    /\ \E n \in DOMAIN patterns.ids :
          \E k \in DOMAIN patterns.defs[n].sequence :
             \E outcome \in {item_outcome(df[1], patterns.defs[n].sequence[k])} :
                /\ hits' = << [seq_item |-> patterns.defs[n].sequence[k],
                               outcome |-> outcome] >>
                /\ raised' = IF outcome = "KeyError" THEN "KeyError" ELSE "none"
    /\ UNCHANGED <<patterns, patterns_db, detections_log, detection_output, df,
                   evaluated, now, ingested>>

SpecCriterion == InitCriterion /\ [][EvaluateCriterion]_vars

\* The column of the event that a key of a seq_item constrains.
ConstrainedColumn(key) ==
    CASE key = "rule_id" -> "rule_id"
      [] key = "process_name" -> "process_name"
      [] key = "registry_contains" -> "registry_key"
      [] key = "path_contains" -> "file_path"
      [] key = "file_extension" -> "file_path"

Lacks(event, label) ==
    \/ ~Has(event, label)
    \/ label \in OptionalColumns /\ event[label] \in {NA, NONE, <<>>}

\* C18 (as stated): whenever a criterion constrains a field (rule_id,
\* process_name, registry_contains, path_contains, file_extension) that the
\* event lacks, the criterion does not match the event and its evaluation
\* raises no error: the event is passed over.
C18_Original ==
    \A h \in DOMAIN hits :
        \A key \in DOMAIN hits[h].seq_item \cap
                  {"rule_id", "process_name", "registry_contains",
                   "path_contains", "file_extension"} :
            Lacks(df[1], ConstrainedColumn(key)) => hits[h].outcome = "continue"

\* ------------------------------------------------------- service installs
\* Runs on alerts of a service installation.  The rows hold no path of the
\* service's binary, except the last, whose command line names it.
WindowsService == <<"T1543.003_windows_service">>

ServicePool ==
    << Alert(10, <<"h1">>, <<"u1">>, 553, MalwarePath, NA, NA, NA, NA, NA),
       Alert(11, <<"h1">>, <<"u1">>, 553, NA, NA, NA, NA, NA, NA),
       Alert(12, <<"h1">>, <<"u1">>, 60200, NA, NA, NA, NA, NA, NA),
       Alert(14, <<"h1">>, <<"u1">>, 60204, NA, NA, NA, NA, NA, NA),
       Alert(9, <<"h1">>, <<"u1">>, 60204, NA, NA, NA, NA, NA, NA),
       Alert(13, <<"h2">>, <<"u1">>, 553, MalwarePath, NA, NA, NA, NA, NA),
       Alert(15, <<"h2">>, <<"u1">>, 60200, NA, <<"sc.exe">>,
             <<"create Evil binPath= ">> \o MalwarePath, NA, NA, NA),
       Alert(16, <<"h2">>, <<"u1">>, 60204, NA, NA, NA, NA, NA, NA) >>

ServiceBatches(n) ==
    { SelectSeq(ServicePool, LAMBDA a : a \in chosen) :
        chosen \in { c \in SUBSET { ServicePool[k] : k \in DOMAIN ServicePool } :
                        Cardinality(c) <= n } }

RunService == \E alerts \in ServiceBatches(MaxAlerts - ingested) : Analyze(alerts)

NextService == RunService \/ Restart

SpecService == Init /\ [][NextService]_vars

\* The link a correlation names, read off the events of a window: the file
\* of the first event that has one is named by the registry value, by the
\* command line or, for a service, by any other field of some event.
NamedIn(value, path) == IsStr(value) /\ Contains(value, path)

LinkVerified(correlation_type, events) ==
    LET f == FirstWith(events, "file_path") IN
    /\ f # 0
    /\ CASE correlation_type = "file_path_in_registry_value" ->
              \E k \in DOMAIN events :
                  NamedIn(events[k].registry_value, Last(Split(events[f].file_path)))
         [] correlation_type = "file_path_in_command_line" ->
              \E k \in DOMAIN events :
                  NamedIn(events[k].process_cmdline, events[f].file_path)
         [] correlation_type = "file_path_in_service_path" ->
              \E k \in DOMAIN events :
                  \/ NamedIn(events[k].process_cmdline, events[f].file_path)
                  \/ NamedIn(events[k].registry_value, events[f].file_path)
                  \/ NamedIn(events[k].registry_key, events[f].file_path)
         [] OTHER -> FALSE

\* C19 (as stated): a pattern that declares a correlation is accepted only
\* when the link of that correlation has been verified on the window: every
\* detection of such a pattern has, among the events of its window, one that
\* names the file; a window without the fields is rejected, never accepted
\* by default.
C19_Original ==
    \A k \in DOMAIN hits :
        Has(PatternOf(hits[k].detection.pattern_id), "correlation") =>
            LinkVerified(PatternOf(hits[k].detection.pattern_id).correlation,
                         hits[k].detection.events)

\* ------------------------------------------- recorded events and learning
\* The position among the detections of the run that qualify for learning.
LearnableRank(k) == Cardinality({i \in 1..k : Learnable(hits[i].detection)})

LearnedFrom(k) == StoreGet(patterns, LearnedId(now, LearnableRank(k) - 1))

BoundEvents(k) ==
    { GroupOf(df, <<hits[k].detection.agent, hits[k].detection.user>>)
          [hits[k].match_result.matched_indices[j]] :
        j \in DOMAIN hits[k].match_result.matched_indices }

Yielding(events) == {e \in DOMAIN events : DOMAIN ExtractItem(events[e]) # {}}

C21_Original ==
    \A i, j \in DOMAIN detections_log.content :
        detections_log.content[i].detection_id = detections_log.content[j].detection_id
            => i = j

\* ------------------------------------------------- earliest window start
EarliestStart(pid, key) ==
    CHOOSE i \in QualifyingStarts(pid, key) :
        \A m \in QualifyingStarts(pid, key) : i <= m

\* C22: the detection reported for a group and a pattern is the one of the
\* chronologically earliest qualifying window start: its start_time is the
\* timestamp of the first event, in time order, whose window satisfies all
\* criteria and the correlation, and its events are that window; a window
\* that fails earlier in the group does not stop the later start from being
\* tried.
C22_EarliestQualifyingWindowReported ==
    \A pid \in EvaluatedIds, key \in DfKeys :
        QualifyingStarts(pid, key) # {} =>
            \E k \in HitsOf(pid, key) :
                /\ hits[k].detection.start_time =
                      <<ToString(GroupOf(df, key)[EarliestStart(pid, key)].timestamp)>>
                /\ hits[k].detection.events =
                      ClosedWindow(GroupOf(df, key), EarliestStart(pid, key), PatternOf(pid))
                /\ \A i \in QualifyingStarts(pid, key) :
                      GroupOf(df, key)[i].timestamp >= hits[k].detection.events[1].timestamp

\* A group whose first window satisfies the criteria but fails the
\* correlation, and whose detection starts at a later event, the earliest
\* whose window qualifies.
C22_Witness ==
    \E pid \in EvaluatedIds, key \in DfKeys :
        /\ QualifyingStarts(pid, key) # {}
        /\ HitsOf(pid, key) # {}
        /\ \E i \in 1..(EarliestStart(pid, key) - 1) :
              /\ AllSatisfied(ClosedWindow(GroupOf(df, key), i, PatternOf(pid)), PatternOf(pid))
              /\ ~CorrelationHolds(ClosedWindow(GroupOf(df, key), i, PatternOf(pid)),
                                   PatternOf(pid))
              /\ GroupOf(df, key)[i].timestamp
                    < GroupOf(df, key)[EarliestStart(pid, key)].timestamp
        /\ \E k \in HitsOf(pid, key) :
              hits[k].detection.start_time =
                 <<ToString(GroupOf(df, key)[EarliestStart(pid, key)].timestamp)>>

\* --------------------------------------------------- binding of criteria
\* The rows of the group inside the window of a detection, as positions.
WindowPositions(k) ==
    { g \in DOMAIN GroupOf(df, <<hits[k].detection.agent, hits[k].detection.user>>) :
        \E e \in DOMAIN hits[k].detection.events :
            hits[k].detection.events[e]
               = GroupOf(df, <<hits[k].detection.agent, hits[k].detection.user>>)[g] }

\* C23: each criterion is bound to the chronologically first event of the
\* window that satisfies it, whatever the earlier criteria were bound to:
\* no event of the window before the bound one satisfies the criterion.
C23_FirstSatisfyingEventBound ==
    \A k \in DOMAIN hits :
        LET d == hits[k].detection
            m == hits[k].match_result.matched_indices
            p == PatternOf(d.pattern_id)
            group == GroupOf(df, <<d.agent, d.user>>)
        IN /\ Len(m) = Len(p.sequence)
           /\ \A j \in DOMAIN m :
                 /\ m[j] \in WindowPositions(k)
                 /\ CriterionOK(group[m[j]], p.sequence[j])
                 /\ \A g \in WindowPositions(k) :
                       CriterionOK(group[g], p.sequence[j]) =>
                          /\ m[j] <= g
                          /\ group[m[j]].timestamp <= group[g].timestamp

\* A detection in which the event bound to a later criterion precedes the
\* event bound to an earlier one.
C23_Witness ==
    \E k \in DOMAIN hits :
        LET d == hits[k].detection
            m == hits[k].match_result.matched_indices
            group == GroupOf(df, <<d.agent, d.user>>)
        IN \E j1, j2 \in DOMAIN m :
              /\ j1 < j2
              /\ group[m[j2]].timestamp < group[m[j1]].timestamp

\* ------------------------------------------- correlation and bound events
\* Runs on alerts among which events that no criterion of the registry run
\* pattern binds carry a file path or a registry value: a file modification
\* (rule 550) and a registry write outside the Run keys (rule 18100).
OtherKey == <<"HKCU", BS, "Software", BS, "Other", BS, "Setting">>
OtherValue == <<"C:", BS, "Windows", BS, "other.exe">>

CorrelationPool ==
    << Alert(5, <<"h1">>, <<"u1">>, 550, MalwarePath, NA, NA, NA, NA, NA),
       Alert(10, <<"h1">>, <<"u1">>, 553, StartupPath, NA, NA, NA, NA, NA),
       Alert(10, <<"h2">>, <<"u1">>, 553, MalwarePath, NA, NA, NA, NA, NA),
       Alert(12, <<"h2">>, <<"u1">>, 18100, NA, NA, NA, OtherKey, OtherValue, NA),
       Alert(15, <<"h1">>, <<"u1">>, 18101, NA, NA, NA, RunKey, MalwarePath, NA),
       Alert(15, <<"h2">>, <<"u1">>, 18101, NA, NA, NA, RunKey, MalwarePath, NA) >>

CorrelationBatches(n) ==
    { SelectSeq(CorrelationPool, LAMBDA a : a \in chosen) :
        chosen \in { c \in SUBSET { CorrelationPool[k] : k \in DOMAIN CorrelationPool } :
                        Cardinality(c) <= n } }

RunCorrelation ==
    \E alerts \in CorrelationBatches(MaxAlerts - ingested) : Analyze(alerts)

NextCorrelation == RunCorrelation \/ Restart

SpecCorrelation == Init /\ [][NextCorrelation]_vars

\* The link of a correlation, read off the events bound to the criteria.
BoundLink(correlation_type, bound) ==
    \E f \in bound : \E o \in bound :
        /\ IsStr(f.file_path)
        /\ CASE correlation_type = "file_path_in_registry_value" ->
                  NamedIn(o.registry_value, Last(Split(f.file_path)))
             [] correlation_type = "file_path_in_command_line" ->
                  NamedIn(o.process_cmdline, f.file_path)
             [] OTHER -> TRUE

\* The events the criteria of a pattern bind in the window opened at row i.
BoundAt(group, i, pattern_def) ==
    { group[g] : g \in { FirstSatisfying(group,
                                         WindowIdx(group, i, pattern_def.time_window_minutes),
                                         pattern_def.sequence[j]) :
                            j \in DOMAIN pattern_def.sequence } \ {0} }

CorrelatesByValue(pattern_def) ==
    /\ Has(pattern_def, "correlation")
    /\ pattern_def.correlation \in {"file_path_in_registry_value",
                                     "file_path_in_command_line"}

\* C24 (as stated): for file_path_in_registry_value and
\* file_path_in_command_line the file path and the registry value or command
\* line that are compared belong to events bound to the criteria: a
\* detection is emitted only if the bound events are linked, and an unbound
\* event elsewhere in the window never turns a linked match down.
C24_Original ==
    /\ \A k \in DOMAIN hits :
          CorrelatesByValue(PatternOf(hits[k].detection.pattern_id)) =>
              BoundLink(PatternOf(hits[k].detection.pattern_id).correlation,
                        BoundEvents(k))
    /\ \A pid \in {id \in EvaluatedIds : CorrelatesByValue(PatternOf(id))},
          key \in DfKeys :
          (\E i \in DOMAIN GroupOf(df, key) :
              /\ AllSatisfied(ClosedWindow(GroupOf(df, key), i, PatternOf(pid)),
                              PatternOf(pid))
              /\ BoundLink(PatternOf(pid).correlation,
                           BoundAt(GroupOf(df, key), i, PatternOf(pid))))
            => HitsOf(pid, key) # {}

\* --------------------------------------------- boosts and unmatched events
\* Runs on alerts among which events that no criterion binds carry a
\* suspicious path or a suspicious parent process, and a bound event has a
\* parent process whose name only contains that of a browser.
TempPath == <<"C:", BS, "Temp", BS, "drop.tmp">>

ScoringPool ==
    << Alert(10, <<"h1">>, <<"u1">>, 553, MalwarePath, NA, NA, NA, NA, NA),
       Alert(12, <<"h1">>, <<"u1">>, 550, TempPath, NA, NA, NA, NA, NA),
       Alert(13, <<"h1">>, <<"u1">>, 551, NA, <<"cmd.exe">>, NA, NA, NA,
             <<"WINWORD.EXE">>),
       Alert(15, <<"h1">>, <<"u1">>, 18101, NA, NA, NA, RunKey, MalwarePath, NA),
       Alert(10, <<"h2">>, <<"u1">>, 553, MalwarePath, NA, NA, NA, NA, NA),
       Alert(100, <<"h2">>, <<"u1">>, 60120, NA, <<"SchTasks.exe">>,
             <<"/create /tn EvilTask /tr ">> \o MalwarePath, NA, NA,
             <<"my", "chrome.exe">>) >>

ScoringBatches(n) ==
    { SelectSeq(ScoringPool, LAMBDA a : a \in chosen) :
        chosen \in { c \in SUBSET { ScoringPool[k] : k \in DOMAIN ScoringPool } :
                        Cardinality(c) <= n } }

RunScoring == \E alerts \in ScoringBatches(MaxAlerts - ingested) : Analyze(alerts)

NextScoring == RunScoring \/ Restart

SpecScoring == Init /\ [][NextScoring]_vars

\* The detection_count the pattern of hit k had when the hit was scored:
\* the count at the start of the run and the detections reported before.
CountWhenScored(k) ==
    PatternOf(hits[k].detection.pattern_id).detection_count
       + Cardinality({m \in 1..(k - 1) :
                         hits[m].detection.pattern_id = hits[k].detection.pattern_id})

\* The confidence of hit k given the two boosts.
ConfidenceWith(k, path_boost, parent_boost) ==
    RatMin(RatMul(RatAdd(RatAdd(RatAdd(PatternOf(hits[k].detection.pattern_id).confidence_base,
                                       DurationBoost(hits[k].detection.events)),
                                path_boost),
                         parent_boost),
                  IF CountWhenScored(k) > 0
                  THEN Rat(2 * CountWhenScored(k)
                              - PatternOf(hits[k].detection.pattern_id).false_positive_count,
                           2 * CountWhenScored(k))
                  ELSE RatInt(1)),
           RatInt(1))

BoundPathBoost(k) ==
    IF \E e \in BoundEvents(k) :
          /\ IsStr(e.file_path)
          /\ \E susp \in suspicious_paths : Contains(e.file_path, susp)
    THEN Rat(5, 100) ELSE RatInt(0)

BoundParentBoost(k) ==
    IF \E e \in BoundEvents(k) :
          /\ IsStr(e.parent_process)
          /\ Lower(e.parent_process) \in suspicious_parents
    THEN Rat(10, 100) ELSE RatInt(0)

\* C25 (as stated): the +0.05 suspicious-path boost is applied at most once
\* and only when an event bound to a criterion has a file_path containing
\* one of the keywords; a suspicious path on an unmatched event of the
\* window does not raise the confidence.
C25_Original ==
    \A k \in DOMAIN hits :
        hits[k].detection.confidence =
            ConfidenceWith(k, BoundPathBoost(k), ParentBoost(hits[k].detection.events))

\* C26 (as stated): the +0.10 parent-process boost is applied at most once
\* and exactly when some event bound to a criterion has a parent_process
\* equal, case-insensitively, to one of the seven listed names.
C26_Original ==
    \A k \in DOMAIN hits :
        hits[k].detection.confidence =
            ConfidenceWith(k, PathBoost(hits[k].detection.events), BoundParentBoost(k))

\* ------------------------------------------------- learning after the run
\* C27: a pattern learned during a run is not evaluated against that run's
\* alerts: every detection of the run comes from a pattern that was in the
\* store when the run started, with the definition it had then, and is in
\* the saved history; a learned pattern that produces a detection was
\* learned in an earlier run.
C27_LearnedPatternFirstUsedInLaterRun ==
    \A k \in DOMAIN hits :
        /\ hits[k].detection.pattern_id \in EvaluatedIds
        /\ hits[k].detection.pattern_name = PatternOf(hits[k].detection.pattern_id).name
        /\ AllSatisfied(hits[k].detection.events, PatternOf(hits[k].detection.pattern_id))
        /\ Has(PatternOf(hits[k].detection.pattern_id), "learned_date") =>
              PatternOf(hits[k].detection.pattern_id).learned_date[1] < now
        /\ \E h \in DOMAIN detections_log.content :
              detections_log.content[h] = CleanDetection(hits[k].detection)

\* A second run in which a pattern learned by the first run produces a
\* detection, while the pattern learned by this run, which the same events
\* satisfy, has produced none: the detections of learned patterns are all of
\* the earlier definition.
C27_Witness ==
    /\ now = 2
    /\ \E k \in DOMAIN hits :
          /\ StartsWith(hits[k].detection.pattern_id, <<"LEARNED_">>)
          /\ PatternOf(hits[k].detection.pattern_id).learned_date = <<1>>
    /\ \E n \in LearnedNow :
          \E key \in DfKeys :
             AllSatisfied(GroupOf(df, key), patterns.defs[n])

\* ------------------------------------------------- events without a user
\* Runs on alerts some of which have an empty user cell.  df.groupby on
\* ['agent_name', 'user'] leaves out the rows whose key holds a NaN.
UserPool ==
    << Alert(10, <<"h1">>, NA, 553, MalwarePath, NA, NA, NA, NA, NA),
       Alert(15, <<"h1">>, NA, 18101, NA, NA, NA, RunKey, MalwarePath, NA),
       Alert(900, <<"h2">>, NA, 550, ShortcutPath, NA, NA, NA, NA, NA),
       Alert(10, <<"h1">>, <<"u1">>, 553, MalwarePath, NA, NA, NA, NA, NA),
       Alert(15, <<"h1">>, <<"u1">>, 18101, NA, NA, NA, RunKey, MalwarePath, NA),
       Alert(900, <<"h2">>, <<"u2">>, 550, ShortcutPath, NA, NA, NA, NA, NA) >>

UserBatches(n) ==
    { SelectSeq(UserPool, LAMBDA a : a \in chosen) :
        chosen \in { c \in SUBSET { UserPool[k] : k \in DOMAIN UserPool } :
                        Cardinality(c) <= n } }

RunUser == \E alerts \in UserBatches(MaxAlerts - ingested) : Analyze(alerts)

NextUser == RunUser \/ Restart

SpecUser == Init /\ [][NextUser]_vars

\* The events of an agent whose user is missing, in time order.
UserlessEvents(agent) ==
    SortByTime(SelectSeq(df, LAMBDA row : row.agent_name = agent /\ IsNa(row.user)))

\* C28 (as stated): events whose user is missing are still analysed: they
\* are grouped per agent, and a qualifying window among them yields a
\* detection whose user field is UNKNOWN.
C28_Original ==
    \A pid \in EvaluatedIds, a \in DOMAIN AgentNames :
        (\E i \in DOMAIN UserlessEvents(AgentNames[a]) :
            Qualifies(UserlessEvents(AgentNames[a]), i, PatternOf(pid)))
          => \E k \in DOMAIN hits :
                /\ hits[k].detection.pattern_id = pid
                /\ hits[k].detection.agent = AgentNames[a]
                /\ hits[k].detection.user = <<"UNKNOWN">>

\* ------------------------------------------ several groups, one pattern
\* Runs on alerts in which two agents show the same two events.
GroupsPool ==
    << Alert(10, <<"h1">>, <<"u1">>, 553, MalwarePath, NA, NA, NA, NA, NA),
       Alert(15, <<"h1">>, <<"u1">>, 18101, NA, NA, NA, RunKey, MalwarePath, NA),
       Alert(10, <<"h2">>, <<"u1">>, 553, MalwarePath, NA, NA, NA, NA, NA),
       Alert(15, <<"h2">>, <<"u1">>, 18101, NA, NA, NA, RunKey, MalwarePath, NA),
       Alert(900, <<"h2">>, <<"u2">>, 550, ShortcutPath, NA, NA, NA, NA, NA) >>

GroupsBatches(n) ==
    { SelectSeq(GroupsPool, LAMBDA a : a \in chosen) :
        chosen \in { c \in SUBSET { GroupsPool[k] : k \in DOMAIN GroupsPool } :
                        Cardinality(c) <= n } }

RunGroups == \E alerts \in GroupsBatches(MaxAlerts - ingested) : Analyze(alerts)

NextGroups == RunGroups \/ Restart

SpecGroups == Init /\ [][NextGroups]_vars

\* C29 (as stated): within one run the confidence of the detection emitted
\* for one (agent, user) group depends only on the events of that group and
\* on the statistics the pattern had when the run started: it is the score
\* of the window under those statistics, whatever other groups match the
\* same pattern.
C29_Original ==
    \A k \in DOMAIN hits :
        hits[k].detection.confidence =
            calculate_confidence(hits[k].detection.events,
                                 PatternOf(hits[k].detection.pattern_id),
                                 hits[k].match_result)

\* --------------------------------------- learned patterns and their source
\* The position among the recorded events that yield a criterion.
YieldRank(events, e) == Cardinality({x \in Yielding(events) : x <= e})

\* The rows of the group at which the window of hit k starts.
SourceStarts(k) ==
    { i \in DOMAIN GroupOf(df, <<hits[k].detection.agent, hits[k].detection.user>>) :
        GroupOf(df, <<hits[k].detection.agent, hits[k].detection.user>>)[i]
           = hits[k].detection.events[1] }

\* C30: every learned pattern matches the events it was learned from: each
\* criterion extracted from an event is satisfied by that event, the learned
\* window (floor(duration/60) + 5 minutes) covers the source window, no
\* correlation is declared, and the matcher accepts the learned pattern on
\* the window of the group that starts where the source window started.
C30_LearnedPatternMatchesItsSource ==
    \A k \in DOMAIN hits :
        Learnable(hits[k].detection) =>
            /\ \A e \in Yielding(hits[k].detection.events) :
                  CriterionOK(hits[k].detection.events[e],
                              LearnedFrom(k).sequence[YieldRank(hits[k].detection.events, e)])
            /\ LearnedFrom(k).time_window_minutes
                  = (hits[k].detection.duration_seconds \div 60) + 5
            /\ 60 * LearnedFrom(k).time_window_minutes
                  >= hits[k].detection.duration_seconds
            /\ ~Has(LearnedFrom(k), "correlation")
            /\ \A i \in SourceStarts(k) :
                  match_sequence(GroupOf(df, <<hits[k].detection.agent,
                                               hits[k].detection.user>>),
                                 WindowIdx(GroupOf(df, <<hits[k].detection.agent,
                                                         hits[k].detection.user>>),
                                           i, LearnedFrom(k).time_window_minutes),
                                 LearnedFrom(k)).matched

\* A second run on the events of the first: the pattern the first run
\* learned from a detection with a duration above zero detects the same
\* window again.
C30_Witness ==
    /\ now = 2
    /\ \E k \in DOMAIN hits :
          /\ StartsWith(hits[k].detection.pattern_id, <<"LEARNED_">>)
          /\ PatternOf(hits[k].detection.pattern_id).learned_from
                = hits[k].detection.detection_id
          /\ \E m \in DOMAIN hits :
                /\ Learnable(hits[m].detection)
                /\ hits[m].detection.events = hits[k].detection.events
                /\ hits[m].detection.duration_seconds > 0
                /\ LearnedFrom(m).sequence
                      = PatternOf(hits[k].detection.pattern_id).sequence

====
